---- MODULE Spec2Model ----
(***************************************************************************)
(* PyBERT equalization-tuning engine (src/pybert/pybert.py): the tunable   *)
(* parameters, the three optimization worker threads, the button handlers  *)
(* that start them, and the cost pipeline the workers evaluate.            *)
(*                                                                         *)
(* Numbers.  Tap weights and the CTLE peaking magnitude are kept in tenths *)
(* (0.2 is 2, 20 dB is 200), so 1.0 is One.  Impulse responses are integer *)
(* sequences; every operation of the pipeline (convolution, cumulative     *)
(* sum, threshold halving) is exact on them.  Sequences are 1-based here   *)
(* and 0-based in the source: an index variable holds the source's 0-based *)
(* value and an access p[ix] of the source is At(p, ix).                   *)
(***************************************************************************)
EXTENDS Integers, Sequences, FiniteSets, TLC

\* ------------------------------------------------------------------ bounds
MaxPresses == 2     \* presses of the three start buttons in one behaviour
MaxUserOps == 1     \* user edits (ResetEq and SaveEq included) in one behaviour
MaxTapVal  == 1     \* largest tap weight (tenths) of a tuner list a function is applied to
MaxSample  == 2     \* largest sample of an impulse response a function is applied to

\* ------------------------------------------------------- program constants
One          == 10      \* 1.0 in tenths
gMaxCTLEPeak == 200     \* 20. dB in tenths
gPeakMag     == 100     \* 10. dB in tenths
gNtaps       == 5
\* Two settings the user chooses, held at small legal values: nspb is a
\* Range(low=2, high=256) (default 32), max_iter an Int (default 50).
nspb         == 2       \* samples per bit
max_iter     == 2       \* objective calls the minimizer may make in one run

\* -------------------------------------------------------------- utilities
Abs(x) == IF x < 0 THEN -x ELSE x

\* s[1] + ... + s[n]
RECURSIVE SumTo(_, _)
SumTo(s, n) == IF n = 0 THEN 0 ELSE s[n] + SumTo(s, n - 1)
SumSeq(s) == SumTo(s, Len(s))

\* max(s[1], ..., s[n]), n >= 1
RECURSIVE MaxTo(_, _)
MaxTo(s, n) == IF n = 1 THEN s[1]
               ELSE LET m == MaxTo(s, n - 1) IN IF s[n] > m THEN s[n] ELSE m
MaxSeq(s) == MaxTo(s, Len(s))

\* Python indexing of a sequence by a 0-based index: a negative index counts
\* from the end; an index outside [-len, len) raises IndexError.
InRange(p, ix) == ix >= -Len(p) /\ ix < Len(p)
At(p, ix)      == IF ix < 0 THEN p[Len(p) + ix + 1] ELSE p[ix + 1]

\* numpy.convolve(a, b), mode 'full': sample n is the sum of a[k] * b[n - k + 1]
\* over the k for which both exist
RECURSIVE conv_at(_, _, _, _)
conv_at(a, b, n, k) ==
    IF k < 1 \/ n - k + 1 > Len(b) THEN 0
    ELSE a[k] * b[n - k + 1] + conv_at(a, b, n, k - 1)
convolve(a, b) ==
    [n \in 1..(Len(a) + Len(b) - 1) |->
        conv_at(a, b, n, IF n < Len(a) THEN n ELSE Len(a))]

\* numpy cumsum
cumsum(h) == [i \in 1..Len(h) |-> SumTo(h, i)]

\* ------------------------------------------------------------ cost pipeline
\* The channel impulse response calc_chnl_h stored: a short response whose
\* samples sum to ChnlOne (unit d.c. gain); len_h is its length.
chnl_h  == <<1, 3, 1>>
ChnlOne == SumSeq(chnl_h)
len_h   == Len(chnl_h)

\* nspui: samples per unit interval; doubled for PAM-4 (mod_type 2).
get_nspui(mod_type) == IF mod_type = 2 THEN nspb * 2 ELSE nspb

\* The coefficient list of _get_tx_h_tune / _get_ffe: value if enabled else 0,
\* and the main tap inserted at (0-based) index 1.
TunerTaps(tuners) == [i \in 1..Len(tuners) |->
                         IF tuners[i].enabled THEN tuners[i].value ELSE 0]
\* Fault variant of InsertAt1: the main tap put in front of the pre-tap.
InsertAt0(taps, x) == <<x>> \o taps

InsertAt1(taps, x) == <<taps[1], x>> \o Tail(taps)
ffe_taps(tuners) ==
    LET taps == TunerTaps(tuners)
    IN  InsertAt1(taps, One - SumSeq([i \in 1..Len(taps) |-> Abs(taps[i])]))

\* sum([[x] + list(zeros(nspui - 1)) for x in taps], [])
get_tx_h_tune(tuners, nspui) ==
    LET taps == ffe_taps(tuners)
    IN  [j \in 1..(Len(taps) * nspui) |->
            IF (j - 1) % nspui = 0 THEN taps[((j - 1) \div nspui) + 1] ELSE 0]

\* make_ctle lives in pybert_util: its result is modelled by the impulse
\* response real(ifft(H)) (in units of CtleOne, one sample longer than len_h)
\* and by |H[0]|, the sum of that response.  'Off' is the all-pass response;
\* the other modes peak by k = peak_mag / 5 dB and spread energy into the tail.
CtleOne == 4
make_ctle(peak_mag, mode) ==
    LET k == peak_mag \div 50
        h == IF mode = "Off" \/ k = 0
             THEN <<CtleOne, 0, 0, 0>>
             ELSE <<CtleOne + 3 * k, -2 * k, -k, CtleOne>>
    IN  [h |-> h, H0 |-> Abs(SumSeq(h))]

\* Fault variant of rescale: the truncated response is returned as it is.
no_rescale(h, H0, sum_h) == h

\* h = real(ifft(H))[:len_h] ; h *= abs(H[0]) / sum(h)
rescale(h, H0, sum_h) == [i \in 1..Len(h) |-> (h[i] * H0) \div sum_h]
get_ctle_h_tune(peak_mag, mode) ==
    LET c == make_ctle(peak_mag, mode)
        h == SubSeq(c.h, 1, len_h)
    IN  rescale(h, c.H0, SumSeq(h))

\* tx_out_h = convolve(tx_h, chnl_h) ; h = convolve(ctle_h, tx_out_h)
get_ctle_out_h_tune(tuners, nspui, peak_mag, mode) ==
    convolve(get_ctle_h_tune(peak_mag, mode),
             convolve(get_tx_h_tune(tuners, nspui), chnl_h))

\* 1.0 in the units of the combined response
CostOne == One * ChnlOne * CtleOne

\* ----------------------------------------------------------- _get_cost
DivLimit == 5000

\* p = s - pad(s[:-nspui], (nspui, 0)): the per-unit-interval pulse response
pulse(h, nspui) ==
    LET s == cumsum(h)
    IN  [i \in 1..Len(s) |-> IF i > nspui THEN s[i] - s[i - nspui] ELSE s[i]]

\* where(p > thresh)[0] as a set of 0-based indices; thresh is tn / div
main_lobe_ixs(p, tn, div) == {i \in 0..(Len(p) - 1) : p[i + 1] * div > tn}
\* Fault variant of first_ix: the threshold test made with >=.
RECURSIVE first_ix_ge(_, _, _, _)
first_ix_ge(p, tn, div, i) ==
    IF i >= Len(p) THEN -1
    ELSE IF p[i + 1] * div >= tn THEN i ELSE first_ix_ge(p, tn, div, i + 1)

\* main_lobe_ixs[0] and main_lobe_ixs[-1], or -1 when there is none
RECURSIVE first_ix(_, _, _, _)
first_ix(p, tn, div, i) ==
    IF i >= Len(p) THEN -1
    ELSE IF p[i + 1] * div > tn THEN i ELSE first_ix(p, tn, div, i + 1)
RECURSIVE last_ix(_, _, _, _)
last_ix(p, tn, div, i) ==
    IF i < 0 THEN -1
    ELSE IF p[i + 1] * div > tn THEN i ELSE last_ix(p, tn, div, i - 1)

\* The "Hula Hoop" threshold search, entered with a non-empty main lobe.
\* steps counts the refinements made; where(...)[0][-1] of an empty set is
\* an IndexError.  trace holds, for the first test and after every
\* refinement, the threshold (tn / div) and the ends of the main lobe
\* (-1 when it is empty).
RECURSIVE hula_hoop(_, _, _, _, _, _, _)
\* Fault variant of hula_step: the threshold is moved by p_max / div before
\* div is doubled.
hula_step_late_double(p, p_max, nspui, div, tn, steps, first, last, trace) ==
    IF last - first - nspui # 0 /\ div < DivLimit
    THEN hula_hoop(p, p_max, nspui, div * 2,
                   IF last - first - nspui > 0 THEN 2 * (tn + p_max)
                   ELSE 2 * (tn - p_max),
                   steps + 1, trace)
    ELSE [exc |-> "none", tn |-> tn, div |-> div, steps |-> steps,
          first |-> first, last |-> last, trace |-> trace]
\* Fault variant of hula_step: the threshold is moved the wrong way.
hula_step_wrong_way(p, p_max, nspui, div, tn, steps, first, last, trace) ==
    IF last - first - nspui # 0 /\ div < DivLimit
    THEN hula_hoop(p, p_max, nspui, div * 2,
                   IF last - first - nspui > 0 THEN 2 * tn - p_max ELSE 2 * tn + p_max,
                   steps + 1, trace)
    ELSE [exc |-> "none", tn |-> tn, div |-> div, steps |-> steps,
          first |-> first, last |-> last, trace |-> trace]
hula_step(p, p_max, nspui, div, tn, steps, first, last, trace) ==
    IF last - first - nspui # 0 /\ div < DivLimit
    THEN hula_hoop(p, p_max, nspui, div * 2,
                   IF last - first - nspui > 0 THEN 2 * tn + p_max ELSE 2 * tn - p_max,
                   steps + 1, trace)
    ELSE [exc |-> "none", tn |-> tn, div |-> div, steps |-> steps,
          first |-> first, last |-> last, trace |-> trace]
hula_hoop(p, p_max, nspui, div, tn, steps, trace) ==
    LET first == first_ix(p, tn, div, 0)
        last  == last_ix(p, tn, div, Len(p) - 1)
        seen  == Append(trace, [tn |-> tn, div |-> div, first |-> first,
                                last |-> last])
    IN  IF first < 0
        THEN [exc |-> "IndexError", tn |-> tn, div |-> div, steps |-> steps,
              first |-> 0, last |-> 0, trace |-> seen]
        ELSE hula_step(p, p_max, nspui, div, tn, steps, first, last, seen)

\* Fault variant of isi_back: the loop stops before index 0.
RECURSIVE isi_back_gt(_, _, _)
isi_back_gt(p, ix, nspui) ==
    IF ix > 0 THEN Abs(At(p, ix)) + isi_back_gt(p, ix - nspui, nspui) ELSE 0

\* isi += abs(p[ix]) for ix = from, from - nspui, ... while ix >= 0
RECURSIVE isi_back(_, _, _)
isi_back(p, ix, nspui) ==
    IF ix >= 0 THEN Abs(At(p, ix)) + isi_back(p, ix - nspui, nspui) ELSE 0

\* isi += abs(p[ix]) for ix = from, from + nspui, ... while ix < len(p)
RECURSIVE isi_fwd(_, _, _)
isi_fwd(p, ix, nspui) ==
    IF ix < Len(p) THEN Abs(At(p, ix)) + isi_fwd(p, ix + nspui, nspui) ELSE 0

\* for i in range(n_taps): if clock_pos + nspui * (1 + i) < len(p):
\*     p[clock_pos + nspui * (0.5 + i) :] -= p[clock_pos + nspui * (1 + i)]
\* The slice start is a float; where numpy accepts it, it is truncated.
RECURSIVE dfe_cancel(_, _, _, _, _)
dfe_cancel(p, clock_pos, nspui, i, n_taps) ==
    IF i >= n_taps THEN p
    ELSE LET b  == clock_pos + nspui * (1 + i)
             a2 == 2 * clock_pos + nspui * (1 + 2 * i)
             \* truncated toward zero; a negative slice start counts from the end
             a  == IF a2 >= 0 THEN a2 \div 2 ELSE -((-a2) \div 2)
             from == IF a >= 0 THEN a ELSE IF Len(p) + a > 0 THEN Len(p) + a ELSE 0
             q  == IF b < Len(p)
                   THEN [j \in 1..Len(p) |->
                           IF j - 1 >= from THEN p[j] - At(p, b) ELSE p[j]]
                   ELSE p
         IN  dfe_cancel(q, clock_pos, nspui, i + 1, n_taps)

\* clocks = thresh * ones(len(p)), then 0 at clock_pos, at clock_pos + nspui
\* for duo-binary, and at every index the two ISI loops visit.  The entries
\* are numerators over the final div.
clocks(len_p, tn, clock_pos, nspui, mod_type) ==
    LET wrap(ix) == IF ix < 0 THEN len_p + ix ELSE ix
        fwd0 == IF mod_type = 1 THEN clock_pos + 2 * nspui ELSE clock_pos + nspui
        zero(ix) == \/ ix = wrap(clock_pos)
                    \/ mod_type = 1 /\ ix = wrap(clock_pos + nspui)
                    \/ ix < clock_pos /\ (clock_pos - ix) % nspui = 0
                    \/ ix >= fwd0 /\ (ix - fwd0) % nspui = 0
    IN  [i \in 1..len_p |-> IF zero(i - 1) THEN 0 ELSE tn]

\* _get_cost on the combined impulse response h, with the float slice index
\* of the DFE loop truncated.  Returns exc ("none" or the exception raised),
\* the cost, and what the algorithm found on the way; float_slice tells that
\* the DFE loop was reached and took a slice.
get_cost(h, nspui, mod_type, use_dfe, n_taps) ==
    LET p     == pulse(h, nspui)
        p_max == MaxSeq(p)
        none  == [exc |-> "none", cost |-> CostOne, degenerate |-> TRUE, steps |-> 0,
                  tn |-> p_max, div |-> 2, first |-> 0, last |-> 0, clock_pos |-> 0,
                  p |-> p, float_slice |-> FALSE, clocks |-> <<>>,
                  trace |-> <<>>]
    IN  IF first_ix(p, p_max, 2, 0) < 0 THEN none
        ELSE
        LET hh        == hula_hoop(p, p_max, nspui, 2, p_max, 0, <<>>)
            mid       == (hh.first + hh.last) \div 2
            clock_pos == IF mod_type = 1 THEN mid - (nspui \div 2) ELSE mid
            found     == [none EXCEPT !.degenerate = FALSE, !.steps = hh.steps,
                          !.tn = hh.tn, !.div = hh.div, !.first = hh.first,
                          !.last = hh.last, !.clock_pos = clock_pos,
                          !.trace = hh.trace]
            fwd0      == IF mod_type = 1 THEN clock_pos + 2 * nspui ELSE clock_pos + nspui
            isi       == isi_back(p, clock_pos - nspui, nspui)
                         + (IF use_dfe THEN 0 ELSE isi_fwd(p, fwd0, nspui))
            slices    == use_dfe /\ n_taps > 0 /\ clock_pos + nspui < Len(p)
            q         == IF use_dfe THEN dfe_cancel(p, clock_pos, nspui, 0, n_taps) ELSE p
        IN  IF hh.exc # "none" THEN [found EXCEPT !.exc = hh.exc]
            ELSE IF mod_type = 1 /\ ~InRange(p, clock_pos + nspui)
            THEN [found EXCEPT !.exc = "IndexError"]
            ELSE [found EXCEPT
                    !.p = q,
                    !.clocks = clocks(Len(p), hh.tn, clock_pos, nspui, mod_type),
                    !.float_slice = slices,
                    !.cost = IF mod_type = 1
                             THEN isi - At(q, clock_pos) - At(q, clock_pos + nspui)
                                  + 2 * Abs(At(q, clock_pos + nspui) - At(q, clock_pos))
                             ELSE isi - At(q, clock_pos)]

\* ------------------------------------------------------------------ state
VARIABLES
    tx_tap_tuners,      \* the tuning copy of the four Tx taps (TxTapTuner rows)
    tx_taps,            \* the committed Tx taps
    peak_freq_tune, peak_mag_tune, rx_bw_tune, ctle_offset_tune,
    ctle_mode_tune, use_dfe_tune, n_taps_tune,          \* tuning settings
    peak_freq, peak_mag, rx_bw, ctle_offset,
    ctle_mode, use_dfe, n_taps,                         \* committed settings
    mod_type,           \* mod_type[0]: 0 NRZ, 1 duo-binary, 2 PAM-4
    status,             \* the status string
    tx_opt_thread, rx_opt_thread, coopt_thread,         \* handles; None is 0
    threads,            \* every Thread object created so far, by id
    user_ops,           \* user edits so far
    refused,            \* the kinds of the start button presses that started nothing
    plotdata,           \* the plot sink: the entries _get_cost sets
    call                \* a function of the pipeline applied on its own: see below

tune_vars   == <<peak_freq_tune, peak_mag_tune, rx_bw_tune, ctle_offset_tune,
                 ctle_mode_tune, use_dfe_tune, n_taps_tune>>
saved_vars  == <<tx_taps, peak_freq, peak_mag, rx_bw, ctle_offset, ctle_mode,
                 use_dfe, n_taps>>
handle_vars == <<tx_opt_thread, rx_opt_thread, coopt_thread>>
\* the program's own state: all but the two records of what the user did
prog_vars   == <<tx_tap_tuners, tune_vars, saved_vars, mod_type, status,
                 handle_vars, threads, plotdata>>
vars        == <<prog_vars, user_ops, refused, call>>

None == 0
Kinds == {"tx", "rx", "co"}

TxTapTuner(enabled, min_val, max_val, value) ==
    [enabled |-> enabled, min_val |-> min_val, max_val |-> max_val, value |-> value]

DefaultTaps == << TxTapTuner(TRUE,  -2, 2, 0),      \* Pre-tap
                  TxTapTuner(FALSE, -4, 4, 0),      \* Post-tap1
                  TxTapTuner(FALSE, -3, 3, 0),      \* Post-tap2
                  TxTapTuner(FALSE, -2, 2, 0) >>    \* Post-tap3

\* plotdata before any cost evaluation, and the two set_data calls of
\* _get_cost, which a degenerate return and every exception come before
NoPlotData == [ctle_out_h_tune |-> <<>>, clocks_tune |-> <<>>]
set_data(pd, c) ==
    IF c.exc # "none" \/ c.degenerate THEN pd
    ELSE [ctle_out_h_tune |-> c.p, clocks_tune |-> c.clocks]

\* no function is being applied on its own
NoCall == [fn |-> "none"]

\* A PyBERT object as its construction leaves it
Constructed ==
    /\ tx_tap_tuners = DefaultTaps
    /\ tx_taps = DefaultTaps
    /\ peak_freq_tune = 5 /\ peak_freq = 5
    /\ peak_mag_tune = gPeakMag /\ peak_mag = gPeakMag
    /\ rx_bw_tune = 12 /\ rx_bw = 12
    /\ ctle_offset_tune = 0 /\ ctle_offset = 0
    /\ ctle_mode_tune = "Off" /\ ctle_mode = "Off"
    /\ use_dfe_tune = TRUE /\ use_dfe = TRUE
    /\ n_taps_tune = gNtaps /\ n_taps = gNtaps
    /\ mod_type = 0
    /\ status = "Ready."
    /\ tx_opt_thread = None /\ rx_opt_thread = None /\ coopt_thread = None
    /\ threads = <<>>
    /\ user_ops = 0
    /\ refused = <<>>
    /\ plotdata = NoPlotData

Init == Constructed /\ call = NoCall

\* pybert.cost, the property chain cost <- ctle_out_h_tune <- (tx_h_tune,
\* ctle_h_tune, chnl_h), computed from the settings as they are when read.
cost ==
    get_cost(get_ctle_out_h_tune(tx_tap_tuners, get_nspui(mod_type),
                                 peak_mag_tune, ctle_mode_tune),
             get_nspui(mod_type), mod_type, use_dfe_tune, n_taps_tune)

\* ------------------------------------------------------------ thread objects
NoRes  == [success |-> FALSE, message |-> "", x |-> <<>>, fun |-> 0, set |-> FALSE]
NoBest == [x |-> <<>>, fun |-> 0, set |-> FALSE]

\* A Thread object as start() leaves it: alive, about to execute run().
NewThread(kind) ==
    [kind |-> kind, pc |-> "begin",
     x0 |-> <<>>, bounds |-> <<>>,      \* run()'s old_taps / vals and bounds
     frozen |-> <<>>,                   \* the tuners whose values x0 took
     x |-> <<>>,                        \* the argument of the objective call in progress
     recv |-> <<>>,                     \* the tuners that call has written
     nfev |-> 0,                        \* objective calls completed
     exc |-> "none",                    \* the exception that ended run(), if any
     best |-> NoBest,                   \* the minimizer's best point so far
     res |-> NoRes]                     \* what minimize returned

ThreadIds == 1..Len(threads)

\* Thread.isAlive(): started, and run() has neither returned nor raised.
isAlive(t) == threads[t].pc \notin {"done", "crashed"}

\* Fault variants of Busy: a handler that does not test its thread at all, and
\* a handler that tests for any running thread instead of its own.
NeverBusy(handle) == FALSE
BusyAnyKind(handle) == \E t \in ThreadIds : isAlive(t)

\* "self.x_thread and self.x_thread.isAlive()"
Busy(handle) == handle # None /\ isAlive(handle)

Alive(kind) == {t \in ThreadIds : threads[t].kind = kind /\ isAlive(t)}

\* ------------------------------------------------------------ button handlers
\* Fault variant of any_enabled: the test of the enabled flags forgotten.
any_listed == Len(tx_tap_tuners) > 0

\* any([self.tx_tap_tuners[i].enabled for i in range(len(self.tx_tap_tuners))])
any_enabled == \E i \in 1..Len(tx_tap_tuners) : tx_tap_tuners[i].enabled

\* The else-branch of a start handler:
\* XOptThread(); thread.pybert = self; thread.start()
StartThread(kind) ==
    /\ Len(threads) + Len(refused) < MaxPresses
    /\ threads' = Append(threads, NewThread(kind))
    /\ UNCHANGED <<tx_tap_tuners, tune_vars, saved_vars, mod_type, status,
                   user_ops, refused, plotdata, call>>

\* Fault variant of Refuse: the press replaces the worker by a new one.
RestartWorker(kind) ==
    /\ Len(threads) + Len(refused) < MaxPresses
    /\ refused' = Append(refused, kind)
    /\ threads' = Append(threads, NewThread(kind))
    /\ UNCHANGED <<tx_tap_tuners, tune_vars, saved_vars, mod_type, status,
                   handle_vars, user_ops, plotdata, call>>

\* The pass-branch of a start handler
Refuse(kind) ==
    /\ Len(threads) + Len(refused) < MaxPresses
    /\ refused' = Append(refused, kind)
    /\ UNCHANGED <<prog_vars, user_ops, call>>

btn_opt_tx_fired ==
    IF Busy(tx_opt_thread) \/ ~any_enabled
    THEN Refuse("tx")
    ELSE /\ StartThread("tx")
         /\ tx_opt_thread' = Len(threads) + 1
         /\ UNCHANGED <<rx_opt_thread, coopt_thread>>

btn_opt_rx_fired ==
    IF Busy(rx_opt_thread) \/ ctle_mode_tune = "Off"
    THEN Refuse("rx")
    ELSE /\ StartThread("rx")
         /\ rx_opt_thread' = Len(threads) + 1
         /\ UNCHANGED <<tx_opt_thread, coopt_thread>>

btn_coopt_fired ==
    IF Busy(coopt_thread)
    THEN Refuse("co")
    ELSE /\ StartThread("co")
         /\ coopt_thread' = Len(threads) + 1
         /\ UNCHANGED <<tx_opt_thread, rx_opt_thread>>

\* A user edit of the settings: a trait edited in the GUI, ResetEq, SaveEq
UserEdit == user_ops < MaxUserOps /\ user_ops' = user_ops + 1 /\ UNCHANGED <<refused, plotdata, call>>

\* _use_dfe_tune_changed / _use_dfe_changed: Post-tap1..3 are enabled exactly
\* when the DFE is not used.  Traits calls the handler only when the assigned
\* value differs from the old one.
dfe_changed(taps, old_value, new_value) ==
    IF new_value = old_value THEN taps
    ELSE [i \in 1..Len(taps) |->
            IF i >= 2 THEN [taps[i] EXCEPT !.enabled = ~new_value] ELSE taps[i]]

\* value and enabled of each of the four rows copied from src to dst
copy_taps(dst, src) ==
    [i \in 1..Len(dst) |->
        [dst[i] EXCEPT !.value = src[i].value, !.enabled = src[i].enabled]]

\* _btn_rst_eq_fired: the committed settings copied into the tuning ones
rst_eq ==
    /\ tx_tap_tuners' = dfe_changed(copy_taps(tx_tap_tuners, tx_taps),
                                    use_dfe_tune, use_dfe)
    /\ peak_freq_tune' = peak_freq
    /\ peak_mag_tune' = peak_mag
    /\ rx_bw_tune' = rx_bw
    /\ ctle_mode_tune' = ctle_mode
    /\ ctle_offset_tune' = ctle_offset
    /\ use_dfe_tune' = use_dfe
    /\ n_taps_tune' = n_taps
    /\ UNCHANGED <<saved_vars, mod_type, status, handle_vars, threads>>

btn_rst_eq_fired == UserEdit /\ rst_eq

\* _btn_save_eq_fired: the tuning settings copied into the committed ones
save_eq ==
    /\ tx_taps' = dfe_changed(copy_taps(tx_taps, tx_tap_tuners), use_dfe, use_dfe_tune)
    /\ peak_freq' = peak_freq_tune
    /\ peak_mag' = peak_mag_tune
    /\ rx_bw' = rx_bw_tune
    /\ ctle_mode' = ctle_mode_tune
    /\ ctle_offset' = ctle_offset_tune
    /\ use_dfe' = use_dfe_tune
    /\ n_taps' = n_taps_tune
    /\ UNCHANGED <<tx_tap_tuners, tune_vars, mod_type, status, handle_vars, threads>>

btn_save_eq_fired == UserEdit /\ save_eq

\* ------------------------------------------------------------------ user edits
\* The user edits a trait through the GUI.  A tuner's value is a plain Float
\* trait: any number is accepted.  4 is inside Post-tap1's range only.
UserRows     == {1, 2}
UserTapVals  == {4}
UserModes    == {"Off", "Manual"}
UserModTypes == {0, 1, 2}

set_tuner_enabled(i, b) ==
    /\ UserEdit
    /\ tx_tap_tuners[i].enabled # b
    /\ tx_tap_tuners' = [tx_tap_tuners EXCEPT ![i].enabled = b]
    /\ UNCHANGED <<tune_vars, saved_vars, mod_type, status, handle_vars, threads>>

set_tuner_value(i, v) ==
    /\ UserEdit
    /\ tx_tap_tuners[i].value # v
    /\ tx_tap_tuners' = [tx_tap_tuners EXCEPT ![i].value = v]
    /\ UNCHANGED <<tune_vars, saved_vars, mod_type, status, handle_vars, threads>>

set_use_dfe_tune(b) ==
    /\ UserEdit
    /\ use_dfe_tune # b
    /\ use_dfe_tune' = b
    /\ tx_tap_tuners' = dfe_changed(tx_tap_tuners, use_dfe_tune, b)
    /\ UNCHANGED <<peak_freq_tune, peak_mag_tune, rx_bw_tune, ctle_offset_tune,
                   ctle_mode_tune, n_taps_tune, saved_vars, mod_type, status,
                   handle_vars, threads>>

set_ctle_mode_tune(m) ==
    /\ UserEdit
    /\ ctle_mode_tune # m
    /\ ctle_mode_tune' = m
    /\ UNCHANGED <<tx_tap_tuners, peak_freq_tune, peak_mag_tune, rx_bw_tune,
                   ctle_offset_tune, use_dfe_tune, n_taps_tune, saved_vars, mod_type,
                   status, handle_vars, threads>>

set_mod_type(m) ==
    /\ UserEdit
    /\ mod_type # m
    /\ mod_type' = m
    /\ UNCHANGED <<tx_tap_tuners, tune_vars, saved_vars, status, handle_vars, threads>>

\* The builds differ on a float slice index: numpy before 1.12 truncates it
\* (with a warning), later versions raise TypeError.
FloatIndex == {"truncate", "TypeError"}
on_build(c, float_index) ==
    IF c.exc = "none" /\ c.float_slice /\ float_index = "TypeError"
    THEN [c EXCEPT !.exc = "TypeError"] ELSE c

\* ------------------------------------------------------------------- workers
StartStatus(kind) == CASE kind = "tx" -> "Optimizing Tx..."
                       [] kind = "rx" -> "Optimizing Rx..."
                       [] kind = "co" -> "Co-optimizing..."

\* res['message'] of a failed minimization: scipy's SLSQP (minimize with
\* bounds and constraints) and its bounded scalar minimizer
FailMessage(kind) == IF kind = "rx" THEN "Maximum number of function calls reached."
                     ELSE "Iteration limit exceeded"

\* Fault variant of TerminalStatus: the minimizer's message left out.
TerminalStatusNoMessage(res) == IF res.success THEN "Optimization succeeded."
                                ELSE "Optimization failed."

TerminalStatus(res) == IF res.success THEN "Optimization succeeded."
                       ELSE "Optimization failed: " \o res.message

\* the indices of the enabled tuners, in list order, from row i on
RECURSIVE enabled_ixs(_, _)
enabled_ixs(tuners, i) ==
    IF i > Len(tuners) THEN <<>>
    ELSE (IF tuners[i].enabled THEN <<i>> ELSE <<>>) \o enabled_ixs(tuners, i + 1)

\* the constraint function: 0.7 - sum(abs(x)), over x[:-1] for co-optimization
cons(kind, x) ==
    LET taps == IF kind = "co" THEN SubSeq(x, 1, Len(x) - 1) ELSE x
    IN  7 - SumSeq([i \in 1..Len(taps) |-> Abs(taps[i])])

\* "for tuner in tuners: if tuner.enabled: tuner.value = taps.pop(0)", from
\* row i on: pop(0) of an empty list raises IndexError, after the rows before
\* it were written.
RECURSIVE assign_taps(_, _, _, _)
assign_taps(tuners, vals, i, recv) ==
    IF i > Len(tuners)
    THEN [tuners |-> tuners, vals |-> vals, recv |-> recv, exc |-> "none"]
    ELSE IF ~tuners[i].enabled THEN assign_taps(tuners, vals, i + 1, recv)
    ELSE IF vals = <<>>
    THEN [tuners |-> tuners, vals |-> vals, recv |-> recv, exc |-> "IndexError"]
    ELSE assign_taps([tuners EXCEPT ![i].value = Head(vals)], Tail(vals), i + 1,
                     Append(recv, i))

\* run() up to the call of the minimizer: pybert.status = "Optimizing ...",
\* then (TxOptThread, CoOptThread) the loop that collects the values and the
\* bounds of the enabled tuners; CoOptThread appends peak_mag_tune with the
\* bounds (0, gMaxCTLEPeak).  RxOptThread passes bounds=(0, gMaxCTLEPeak).
\* The status write and the reads are one step: every step of another
\* thread commutes with one of the two.
run_begin(t) ==
    LET th  == threads[t]
        ixs == enabled_ixs(tx_tap_tuners, 1)
        x0  == [k \in 1..Len(ixs) |-> tx_tap_tuners[ixs[k]].value]
        bs  == [k \in 1..Len(ixs) |->
                   <<tx_tap_tuners[ixs[k]].min_val, tx_tap_tuners[ixs[k]].max_val>>]
    IN  /\ th.pc = "begin"
        /\ status' = StartStatus(th.kind)
        /\ threads' = [threads EXCEPT
              ![t].pc = "minimize",
              ![t].frozen = IF th.kind = "rx" THEN <<>> ELSE ixs,
              ![t].x0 = CASE th.kind = "tx" -> x0
                          [] th.kind = "co" -> Append(x0, peak_mag_tune)
                          [] th.kind = "rx" -> <<>>,
              ![t].bounds = CASE th.kind = "tx" -> bs
                              [] th.kind = "co" -> Append(bs, <<0, gMaxCTLEPeak>>)
                              [] th.kind = "rx" -> << <<0, gMaxCTLEPeak>> >>]
        /\ UNCHANGED <<tx_tap_tuners, tune_vars, saved_vars, mod_type, handle_vars,
                       user_ops, refused, plotdata, call>>

\* The minimizer's choice of the next point.  It stays within the bounds: the
\* first SLSQP point is x0 brought into them, any other point has every
\* variable at the middle, or every variable at the upper end, of its range.
Clip(v, b) == IF v < b[1] THEN b[1] ELSE IF v > b[2] THEN b[2] ELSE v
Candidates(th) ==
    IF th.kind # "rx" /\ th.nfev = 0
    THEN {[k \in 1..Len(th.x0) |-> Clip(th.x0[k], th.bounds[k])]}
    ELSE {[k \in 1..Len(th.bounds) |-> (th.bounds[k][1] + th.bounds[k][2]) \div 2],
          [k \in 1..Len(th.bounds) |-> th.bounds[k][2]]}

\* do_opt_tx / do_opt_rx / do_coopt up to the read of pybert.cost: the
\* argument is written into the live settings.
objective_call(t, x) ==
    LET th == threads[t]
        w  == assign_taps(tx_tap_tuners, x, 1, <<>>)
        \* do_coopt: pybert.peak_mag_tune = vals.pop(0)
        raised == \/ th.kind # "rx" /\ w.exc # "none"
                  \/ th.kind = "co" /\ w.vals = <<>>
    IN  /\ th.pc = "minimize"
        /\ th.nfev < max_iter
        /\ tx_tap_tuners' = IF th.kind = "rx" THEN tx_tap_tuners ELSE w.tuners
        /\ peak_mag_tune' = CASE th.kind = "rx" -> x[1]
                              [] th.kind = "co" /\ ~raised -> Head(w.vals)
                              [] OTHER -> peak_mag_tune
        /\ threads' = [threads EXCEPT
              ![t].pc = IF raised THEN "crashed" ELSE "cost",
              ![t].exc = IF raised THEN "IndexError" ELSE "none",
              ![t].x = x,
              ![t].recv = IF th.kind = "rx" THEN <<>> ELSE w.recv]
        /\ UNCHANGED <<peak_freq_tune, rx_bw_tune, ctle_offset_tune, ctle_mode_tune,
                       use_dfe_tune, n_taps_tune, saved_vars, mod_type, status,
                       handle_vars, user_ops, refused, plotdata, call>>

\* The minimizer keeps the best point it has seen.
better(best, x, fun) == IF ~best.set \/ fun < best.fun
                        THEN [x |-> x, fun |-> fun, set |-> TRUE] ELSE best

\* Fault variant of objective_cost: the evaluation also commits the settings
\* it has evaluated, as the save button does.
objective_cost_commit(t, float_index) ==
    /\ threads[t].pc = "cost"
    /\ \E c \in {on_build(cost, float_index)} :
         /\ threads' = [threads EXCEPT
               ![t].pc = IF c.exc # "none" THEN "crashed" ELSE "minimize",
               ![t].exc = c.exc,
               ![t].nfev = IF c.exc # "none" THEN @ ELSE @ + 1,
               ![t].best = IF c.exc # "none" THEN @
                           ELSE better(@, threads[t].x, c.cost),
               ![t].x = <<>>,
               ![t].recv = <<>>]
         /\ plotdata' = set_data(plotdata, c)
    /\ tx_taps' = tx_tap_tuners
    /\ peak_mag' = peak_mag_tune
    /\ UNCHANGED <<tx_tap_tuners, tune_vars, peak_freq, rx_bw, ctle_offset,
                   ctle_mode, use_dfe, n_taps, mod_type, status,
                   handle_vars, user_ops, refused, call>>

\* "return pybert.cost": the cost of the settings as they are now goes back to
\* the minimizer.  An exception of the cost evaluation leaves run() through
\* minimize.
objective_cost(t, float_index) ==
    /\ threads[t].pc = "cost"
    /\ \E c \in {on_build(cost, float_index)} :
         /\ threads' = [threads EXCEPT
               ![t].pc = IF c.exc # "none" THEN "crashed" ELSE "minimize",
               ![t].exc = c.exc,
               ![t].nfev = IF c.exc # "none" THEN @ ELSE @ + 1,
               ![t].best = IF c.exc # "none" THEN @
                           ELSE better(@, threads[t].x, c.cost),
               ![t].x = <<>>,
               ![t].recv = <<>>]
         /\ plotdata' = set_data(plotdata, c)
    /\ UNCHANGED <<tx_tap_tuners, tune_vars, saved_vars, mod_type, status,
                   handle_vars, user_ops, refused, call>>

\* Fault variant of run_end: a failed minimization is run again.
run_end_retry(t, success) ==
    LET th  == threads[t]
        res == [success |-> success,
                message |-> IF success THEN "Optimization terminated successfully."
                            ELSE FailMessage(th.kind),
                x |-> th.best.x, fun |-> th.best.fun, set |-> TRUE]
    IN  /\ th.pc = "minimize"
        /\ th.nfev >= 1
        /\ success => (th.kind = "rx" \/ cons(th.kind, th.best.x) >= 0)
        /\ status' = TerminalStatus(res)
        /\ threads' = [threads EXCEPT ![t].pc = IF success THEN "done" ELSE "begin",
                                      ![t].res = res, ![t].nfev = 0,
                                      ![t].x0 = <<>>, ![t].bounds = <<>>,
                                      ![t].best = NoBest]
        /\ UNCHANGED <<tx_tap_tuners, tune_vars, saved_vars, mod_type, handle_vars,
                       user_ops, refused, plotdata, call>>

\* minimize returns res; run() publishes the terminal status and ends.
run_end(t, success) ==
    LET th  == threads[t]
        res == [success |-> success,
                message |-> IF success THEN "Optimization terminated successfully."
                            ELSE FailMessage(th.kind),
                x |-> th.best.x, fun |-> th.best.fun, set |-> TRUE]
    IN  /\ th.pc = "minimize"
        /\ th.nfev >= 1
        /\ success => (th.kind = "rx" \/ cons(th.kind, th.best.x) >= 0)
        /\ status' = TerminalStatus(res)
        /\ threads' = [threads EXCEPT ![t].pc = "done", ![t].res = res,
                                      ![t].x0 = <<>>, ![t].bounds = <<>>,
                                      ![t].best = NoBest]
        /\ UNCHANGED <<tx_tap_tuners, tune_vars, saved_vars, mod_type, handle_vars,
                       user_ops, refused, plotdata, call>>

\* ------------------------------------------------------------- specification
Next ==
    \/ btn_opt_tx_fired
    \/ btn_opt_rx_fired
    \/ btn_coopt_fired
    \/ btn_rst_eq_fired
    \/ btn_save_eq_fired
    \/ \E i \in UserRows, b \in BOOLEAN : set_tuner_enabled(i, b)
    \/ \E i \in UserRows, v \in UserTapVals : set_tuner_value(i, v)
    \/ \E b \in BOOLEAN : set_use_dfe_tune(b)
    \/ \E m \in UserModes : set_ctle_mode_tune(m)
    \/ \E m \in UserModTypes : set_mod_type(m)
    \/ \E t \in ThreadIds : run_begin(t)
    \/ \E t \in ThreadIds : \E x \in Candidates(threads[t]) : objective_call(t, x)
    \/ \E t \in ThreadIds, f \in FloatIndex : objective_cost(t, f)
    \/ \E t \in ThreadIds, ok \in BOOLEAN : run_end(t, ok)

Spec == Init /\ [][Next]_vars

\* ---------------------------------------------------------------- properties
NoTunerEnabled == \A i \in 1..Len(tx_tap_tuners) : ~tx_tap_tuners[i].enabled

\* the step created exactly one thread, of this kind, alive and the only one
\* of its kind, and stored it in the kind's handle
StartedOne(kind, handle) ==
    /\ Len(threads') = Len(threads) + 1
    /\ SubSeq(threads', 1, Len(threads)) = threads
    /\ threads'[Len(threads')].kind = kind
    /\ Alive(kind)' = {Len(threads')}
    /\ handle' = Len(threads')

\* C1: in every reachable state at most one worker of each kind is alive.
AtMostOneAlivePerKind == \A k \in Kinds : Cardinality(Alive(k)) <= 1

\* A co-optimization was started, its button pressed again, and it is still
\* the only one alive.
RepressedWhileAlive ==
    /\ refused = <<"co">>
    /\ Alive("co") = {1}
    /\ threads[1].pc = "minimize"

\* C2: a start button fired while a worker of its kind is alive changes
\* nothing of the program's state: no thread is created, the handle, the
\* worker, the status and the settings stay as they are.
FireWhileAliveIsNoOp ==
    [][ /\ (btn_opt_tx_fired /\ Alive("tx") # {}) => UNCHANGED prog_vars
        /\ (btn_opt_rx_fired /\ Alive("rx") # {}) => UNCHANGED prog_vars
        /\ (btn_coopt_fired  /\ Alive("co") # {}) => UNCHANGED prog_vars ]_vars

\* OptTx was pressed during a Tx search that is between its write of the
\* tuners and its read of the cost.
TxRefusedWhileRunning ==
    /\ refused = <<"tx">>
    /\ user_ops = 0
    /\ Busy(tx_opt_thread)
    /\ threads[tx_opt_thread].pc = "cost"

\* C3: OptTx fired with no tuner enabled, and OptRx fired with the CTLE mode
\* "Off", change nothing (no worker, no status write); a start button fired
\* with its prerequisite met and no worker of its kind alive starts exactly
\* one worker.
PrerequisiteDecidesStart ==
    [][ /\ (btn_opt_tx_fired /\ NoTunerEnabled) => UNCHANGED prog_vars
        /\ (btn_opt_rx_fired /\ ctle_mode_tune = "Off") => UNCHANGED prog_vars
        /\ (btn_opt_tx_fired /\ ~NoTunerEnabled /\ Alive("tx") = {})
              => StartedOne("tx", tx_opt_thread)
        /\ (btn_opt_rx_fired /\ ctle_mode_tune # "Off" /\ Alive("rx") = {})
              => StartedOne("rx", rx_opt_thread)
        /\ (btn_coopt_fired /\ Alive("co") = {})
              => StartedOne("co", coopt_thread) ]_vars

\* The user disabled the Pre-tap, the only enabled tuner, and pressed OptTx:
\* no thread exists and the status was never written.
TxRefusedWithoutTuner ==
    /\ refused = <<"tx">>
    /\ NoTunerEnabled
    /\ threads = <<>>
    /\ status = "Ready."

\* C4: whether a start button starts a worker does not depend on the workers
\* of the other kinds: with another kind alive, the press starts a worker
\* exactly when its own kind has none alive and its own prerequisite holds.
OtherKinds(kind) == UNION {Alive(k) : k \in Kinds \ {kind}}
StartIgnoresOtherKinds ==
    [][ /\ (btn_opt_tx_fired /\ OtherKinds("tx") # {})
              => (Len(threads') > Len(threads)
                    <=> (Alive("tx") = {} /\ ~NoTunerEnabled))
        /\ (btn_opt_rx_fired /\ OtherKinds("rx") # {})
              => (Len(threads') > Len(threads)
                    <=> (Alive("rx") = {} /\ ctle_mode_tune # "Off"))
        /\ (btn_coopt_fired /\ OtherKinds("co") # {})
              => (Len(threads') > Len(threads) <=> Alive("co") = {}) ]_vars

\* A Tx search and a co-optimization are both alive, each has written the
\* value of the same enabled tuner and neither has read the cost yet.
TxAndCoWriteSameTuner ==
    \E a, b \in ThreadIds, i \in 1..Len(tx_tap_tuners) :
        /\ threads[a].kind = "tx" /\ threads[b].kind = "co"
        /\ threads[a].pc = "cost" /\ threads[b].pc = "cost"
        /\ tx_tap_tuners[i].enabled
        /\ \E k \in 1..Len(threads[a].recv) : threads[a].recv[k] = i
        /\ \E k \in 1..Len(threads[b].recv) : threads[b].recv[k] = i

\* run() has published its terminal status
Terminated(t) == threads[t].res.set

\* C5: a worker that is no longer alive has published a terminal status: no
\* interleaving with user edits or other workers, and no outcome of a cost
\* evaluation, leaves a worker dead with its start status standing.
DeadWorkerHasPublished == \A t \in ThreadIds : ~isAlive(t) => Terminated(t)

\* C6: in every objective call of a Tx search the tuners written are the
\* tuners that were enabled when the search collected its start vector.
TxWritesTheTunersOfItsStart ==
    \A t \in ThreadIds :
        (threads[t].kind = "tx" /\ threads[t].pc = "cost")
            => threads[t].recv = threads[t].frozen

\* the settings thread t searched over hold the vector minimize returned
HoldsSolution(t) ==
    LET th == threads[t]
    IN  /\ th.kind # "rx" =>
              \A k \in 1..Len(th.frozen) :
                  tx_tap_tuners[th.frozen[k]].value = th.res.x[k]
        /\ th.kind # "tx" => peak_mag_tune = th.res.x[Len(th.res.x)]

\* C7: when a worker terminates, the settings it searched over hold the
\* vector minimize returned.  Stated for a run in which the user edits
\* nothing and no other worker exists.
TerminationLeavesSolution ==
    [][ \A t \in ThreadIds :
          (user_ops = 0 /\ Len(threads) = 1
             /\ threads[t].pc = "minimize" /\ threads'[t].pc = "done")
            => HoldsSolution(t)' ]_vars

\* C8: a terminated run never takes another step; the status is written, and
\* the settings are changed, only by a step of a run that has not terminated
\* or (the settings) by a user edit; a thread is created only by a start
\* button; and the start button fired after its kind's run has terminated
\* creates a new thread at the beginning of run().
StartButtonFired == btn_opt_tx_fired \/ btn_opt_rx_fired \/ btn_coopt_fired
LiveWorkerStep == \E t \in ThreadIds : ~Terminated(t) /\ threads'[t] # threads[t]
RestartsAfter(kind, fired, prerequisite) ==
    (/\ fired
     /\ prerequisite
     /\ Alive(kind) = {}
     /\ \E t \in ThreadIds : threads[t].kind = kind /\ Terminated(t))
        => threads' = Append(threads, NewThread(kind))
NoRunWithoutExplicitStart ==
    [][ /\ \A t \in ThreadIds : Terminated(t) => threads'[t] = threads[t]
        /\ status' # status => LiveWorkerStep
        /\ (tx_tap_tuners' # tx_tap_tuners \/ tune_vars' # tune_vars)
              => (LiveWorkerStep \/ user_ops' = user_ops + 1)
        /\ Len(threads') > Len(threads) => StartButtonFired
        /\ RestartsAfter("tx", btn_opt_tx_fired, ~NoTunerEnabled)
        /\ RestartsAfter("rx", btn_opt_rx_fired, ctle_mode_tune # "Off")
        /\ RestartsAfter("co", btn_coopt_fired, TRUE) ]_vars

\* A run failed, its button was pressed again, and the new run of the same
\* kind has completed its first objective call.
RestartedAfterFailure ==
    \E a, b \in ThreadIds :
        /\ a < b
        /\ threads[a].kind = threads[b].kind
        /\ Terminated(a) /\ ~threads[a].res.success
        /\ threads[b].pc = "minimize" /\ threads[b].nfev = 1

\* C9: the step in which run() ends writes "Optimization succeeded." when
\* minimize reported success and "Optimization failed: <message>" otherwise;
\* the step in which run() leaves its beginning writes the start status of its
\* kind, and no objective call is made or completed before it.
StatusStrings ==
    [][ \A t \in ThreadIds :
          /\ (threads[t].pc # "done" /\ threads'[t].pc = "done")
                => status' = IF threads'[t].res.success
                             THEN "Optimization succeeded."
                             ELSE "Optimization failed: " \o threads'[t].res.message
          /\ (threads[t].pc = "begin" /\ threads'[t].pc # "begin")
                => /\ status' = CASE threads[t].kind = "tx" -> "Optimizing Tx..."
                                  [] threads[t].kind = "rx" -> "Optimizing Rx..."
                                  [] threads[t].kind = "co" -> "Co-optimizing..."
                   /\ threads'[t].pc = "minimize"
                   /\ threads'[t].nfev = 0
          /\ threads[t].pc = "begin"
                => (threads[t].nfev = 0 /\ threads[t].x = <<>>) ]_vars

\* A Tx search has ended in failure and its terminal status stands.
FailureStatusPublished ==
    \E t \in ThreadIds :
        /\ threads[t].kind = "tx"
        /\ threads[t].pc = "done"
        /\ ~threads[t].res.success
        /\ status = "Optimization failed: Iteration limit exceeded"

\* C10: every enabled tuner has min_val <= value <= max_val.
EnabledTunersInRange ==
    \A i \in 1..Len(tx_tap_tuners) :
        tx_tap_tuners[i].enabled
            => (/\ tx_tap_tuners[i].min_val <= tx_tap_tuners[i].value
                /\ tx_tap_tuners[i].value <= tx_tap_tuners[i].max_val)

\* ------------------------------------------------- functions applied alone
\* The functions of the pipeline, each applied once to an argument drawn
\* from a bounded set: call holds the function's name, its argument and,
\* once applied, its result.
Applied(fn) == call.fn = fn /\ call.done
Apply(fn, ret) ==
    /\ call.fn = fn
    /\ ~call.done
    /\ call' = [call EXCEPT !.ret = ret, !.done = TRUE]
    /\ UNCHANGED <<prog_vars, user_ops, refused>>

\* tuner lists: the pre-tap alone, with one post-tap, and the program's four
TunerLens == {1, 2, Len(DefaultTaps)}
TunerLists ==
    UNION {[1..n -> {TxTapTuner(e, -4, 4, v) :
                        e \in BOOLEAN, v \in (-MaxTapVal)..MaxTapVal}] : n \in TunerLens}

\* _get_tx_h_tune (and, for its coefficient list, _get_ffe)
TxCalls == {[fn |-> "tx_h_tune", done |-> FALSE, ret |-> <<>>,
             arg |-> [tuners |-> ts, nspui |-> get_nspui(m)]] :
                ts \in TunerLists, m \in {0, 2}}
apply_tx_h_tune ==
    Apply("tx_h_tune", [ffe |-> ffe_taps(call.arg.tuners),
                        h |-> get_tx_h_tune(call.arg.tuners, call.arg.nspui)])

\* _get_cost: combined impulse responses of 2 * nspb + 1 samples, on either
\* build.  p is a new array (s - pad(...)), so the in-place DFE subtraction
\* leaves the array h it was computed from as it was.
h_after_aliased(h, c) == IF c.exc = "none" /\ ~c.degenerate THEN c.p ELSE h
h_after(h, c) == h
Responses == [1..(2 * nspb + 1) -> (-1)..MaxSample]
CostCalls == {[fn |-> "cost", done |-> FALSE, ret |-> <<>>, again |-> FALSE,
               ret2 |-> <<>>,
               arg |-> [h |-> h, h0 |-> h, mod_type |-> m, use_dfe |-> d,
                        n_taps |-> n, float_index |-> f]] :
                  h \in Responses, m \in UserModTypes, d \in BOOLEAN,
                  n \in {0, 1, gNtaps}, f \in FloatIndex}
cost_of(arg) ==
    on_build(get_cost(arg.h, get_nspui(arg.mod_type), arg.mod_type, arg.use_dfe,
                      arg.n_taps), arg.float_index)
apply_cost ==
    /\ call.fn = "cost"
    /\ ~call.done
    /\ \E c \in {cost_of(call.arg)} :
          call' = [call EXCEPT !.ret = c, !.done = TRUE,
                               !.arg.h = h_after(call.arg.h, c)]
    /\ UNCHANGED <<prog_vars, user_ops, refused>>
\* the second evaluation on the same array
apply_cost_again ==
    /\ call.fn = "cost"
    /\ call.done /\ ~call.again
    /\ \E c \in {cost_of(call.arg)} :
          call' = [call EXCEPT !.ret2 = c, !.again = TRUE,
                               !.arg.h = h_after(call.arg.h, c)]
    /\ UNCHANGED <<prog_vars, user_ops, refused>>

\* ---- calc_chnl_h ----

\* numpy.diff, the in-place "*= ts" and ndarray.resize (cut, or filled with 0)
diff(w)      == [i \in 1..(Len(w) - 1) |-> w[i + 1] - w[i]]
scale(w, ts) == [i \in 1..Len(w) |-> w[i] * ts]
resize(w, n) == [i \in 1..n |-> IF i <= Len(w) THEN w[i] ELSE 0]

\* The response before trimming.  From a file: the imported waveform, its
\* derivative if it ends above half its maximum (a step response), else scaled
\* by the sample interval, then resized to len(t).  From the physical
\* parameters: real(ifft(chnl_H)), which has len(t) samples.
untrimmed(arg) ==
    IF arg.use_ch_file
    THEN resize(IF 2 * arg.w[Len(arg.w)] > MaxSeq(arg.w)
                THEN diff(arg.w) ELSE scale(arg.w, arg.ts),
                arg.len_t)
    ELSE arg.w

\* min_len and max_len as calc_chnl_h passes them: impulse_length / ts for
\* both if impulse_length is set, else 10 and 100 unit intervals
trim_lens(arg) ==
    IF arg.impulse_length # 0
    THEN [min_len |-> arg.impulse_length, max_len |-> arg.impulse_length]
    ELSE [min_len |-> 10 * arg.nspui, max_len |-> 100 * arg.nspui]

\* trim_impulse of pybert_util: a window of the response around its peak, of
\* between min_len and max_len samples as far as the response has them, and
\* the index at which the window starts.  Every such window is an outcome.
Least(a, b) == IF a < b THEN a ELSE b
peak_ix(g) == CHOOSE i \in 1..Len(g) :
                 /\ g[i] = MaxSeq(g)
                 /\ \A j \in 1..(i - 1) : g[j] # MaxSeq(g)
trim_impulse(g, min_len, max_len) ==
    {[h |-> SubSeq(g, s, s + n - 1), start_ix |-> s - 1] :
        <<s, n>> \in {sn \in (1..Len(g)) \X (1..Len(g)) :
                        /\ sn[2] >= Least(min_len, Len(g))
                        /\ sn[2] <= Least(max_len, Len(g))
                        /\ sn[1] + sn[2] - 1 <= Len(g)
                        /\ sn[1] <= peak_ix(g)
                        /\ peak_ix(g) <= sn[1] + sn[2] - 1}}

\* Fault variant of calc_chnl_h: normalized by the sum before trimming, and
\* len_h taken from the untrimmed response.
calc_chnl_h_before_trim(g, tr) ==
    [chnl_h |-> [samples |-> tr.h, over |-> SumSeq(g)],
     len_h |-> Len(g), start_ix |-> tr.start_ix,
     finite |-> SumSeq(g) # 0]

\* What calc_chnl_h stores, g being the untrimmed response and tr the outcome
\* of trim_impulse: "chnl_h /= sum(chnl_h)" on the trimmed response, kept as
\* the samples over their common divisor; a sum of 0 gives inf and nan
\* samples (finite is FALSE).  len_h = len(chnl_h).
calc_chnl_h(g, tr) ==
    [chnl_h |-> [samples |-> tr.h, over |-> SumSeq(tr.h)],
     len_h |-> Len(tr.h), start_ix |-> tr.start_ix,
     finite |-> SumSeq(tr.h) # 0]

\* channel configurations: a waveform of one sample less than, as many as, or
\* one more than len(t) from a file (sample interval 1 or 3), or a response of
\* len(t) samples from the physical parameters; impulse_length unset (0) or
\* 2 or 3 samples
Waveforms(n) == [1..n -> (-1)..MaxSample]
ChnlCalls ==
    {[fn |-> "calc_chnl_h", done |-> FALSE, ret |-> <<>>, g |-> <<>>,
      arg |-> [use_ch_file |-> f, w |-> w, ts |-> ts, len_t |-> 2 * nspb,
               nspui |-> nspb, impulse_length |-> il]] :
        f \in {TRUE}, ts \in {1, 3}, il \in {0, 2, 3},
        w \in Waveforms(2 * nspb - 1) \cup Waveforms(2 * nspb)
              \cup Waveforms(2 * nspb + 1)}
    \cup
    {[fn |-> "calc_chnl_h", done |-> FALSE, ret |-> <<>>, g |-> <<>>,
      arg |-> [use_ch_file |-> FALSE, w |-> w, ts |-> 1, len_t |-> 2 * nspb,
               nspui |-> nspb, impulse_length |-> il]] :
        il \in {0, 2, 3}, w \in Waveforms(2 * nspb)}

apply_calc_chnl_h ==
    /\ call.fn = "calc_chnl_h" /\ ~call.done
    /\ \E g \in {untrimmed(call.arg)} :
       \E tr \in trim_impulse(g, trim_lens(call.arg).min_len,
                              trim_lens(call.arg).max_len) :
          call' = [call EXCEPT !.done = TRUE, !.ret = calc_chnl_h(g, tr),
                               !.g = g]
    /\ UNCHANGED <<prog_vars, user_ops, refused>>

\* ---- _get_ctle_h_tune ----

\* the four values of the Enum ctle_mode_tune, and peak magnitudes across the
\* band in steps of 5 dB
CtleModes == {"Off", "Passive", "AGC", "Manual"}
CtleCalls ==
    {[fn |-> "ctle_h_tune", done |-> FALSE, ret |-> <<>>,
      arg |-> [peak_mag |-> m, mode |-> md]] :
        m \in {k * (gMaxCTLEPeak \div 4) : k \in 0..4}, md \in CtleModes}
apply_ctle_h_tune ==
    /\ call.fn = "ctle_h_tune" /\ ~call.done
    /\ call' = [call EXCEPT !.done = TRUE,
                  !.ret = [h  |-> get_ctle_h_tune(call.arg.peak_mag, call.arg.mode),
                           H0 |-> make_ctle(call.arg.peak_mag, call.arg.mode).H0]]
    /\ UNCHANGED <<prog_vars, user_ops, refused>>

\* ---- do_opt_tx, statement by statement ----

\* The callback of the Tx search runs in the worker's thread while the GUI
\* thread serves the user: the test "if(tuner.enabled)" and the assignment
\* "tuner.value = taps.pop(0)" are two statements, and the user's click on a
\* tuner's check box can fall between them.  row is the tuner the for loop
\* is at, tested tells that its enabled flag has been read as True.
TapVectors == UNION {[1..n -> {-2, 0, 2}] : n \in 1..2}
DoOptTxCalls ==
    {[fn |-> "do_opt_tx", done |-> FALSE, ret |-> <<>>, taps |-> x, row |-> 1,
      tested |-> FALSE] : x \in TapVectors}

everything_but_tx_tap_tuners ==
    <<tune_vars, saved_vars, mod_type, status, handle_vars, threads, plotdata,
      user_ops, refused>>

\* for tuner in tuners: if(tuner.enabled):
do_opt_tx_test ==
    /\ call.fn = "do_opt_tx" /\ ~call.done /\ ~call.tested
    /\ call.row <= Len(tx_tap_tuners)
    /\ call' = IF tx_tap_tuners[call.row].enabled
               THEN [call EXCEPT !.tested = TRUE]
               ELSE [call EXCEPT !.row = @ + 1]
    /\ UNCHANGED <<tx_tap_tuners, everything_but_tx_tap_tuners>>

\* tuner.value = taps.pop(0); pop of an empty list raises IndexError
do_opt_tx_assign ==
    /\ call.fn = "do_opt_tx" /\ ~call.done /\ call.tested
    /\ IF call.taps = <<>>
       THEN /\ call' = [call EXCEPT !.done = TRUE, !.ret = [exc |-> "IndexError"]]
            /\ UNCHANGED tx_tap_tuners
       ELSE /\ tx_tap_tuners' = [tx_tap_tuners EXCEPT
                                   ![call.row].value = Head(call.taps)]
            /\ call' = [call EXCEPT !.taps = Tail(@), !.row = @ + 1,
                                    !.tested = FALSE]
    /\ UNCHANGED everything_but_tx_tap_tuners

\* return pybert.cost
do_opt_tx_return ==
    /\ call.fn = "do_opt_tx" /\ ~call.done /\ ~call.tested
    /\ call.row > Len(tx_tap_tuners)
    /\ call' = [call EXCEPT !.done = TRUE, !.ret = [exc |-> "none"]]
    /\ UNCHANGED <<tx_tap_tuners, everything_but_tx_tap_tuners>>

\* the user checks or un-checks a tuner while the callback runs
edit_during_do_opt_tx ==
    /\ call.fn = "do_opt_tx" /\ ~call.done
    /\ \E i \in UserRows, b \in BOOLEAN : set_tuner_enabled(i, b)

\* ---- the CTLE peak magnitude, set from outside the optimizers ----

\* the values a caller may offer: below the band, its ends, the default and
\* above the band
PeakVals == {-10, 0, gPeakMag, gMaxCTLEPeak, gMaxCTLEPeak + 10}
PeakCalls ==
    {[fn |-> f, done |-> FALSE, ret |-> <<>>, arg |-> [val |-> v]] :
        f \in {"_set_ctle_peak_mag_tune", "peak_mag_tune"}, v \in PeakVals}

everything_but_peak_mag_tune ==
    <<tx_tap_tuners, peak_freq_tune, rx_bw_tune, ctle_offset_tune, ctle_mode_tune,
      use_dfe_tune, n_taps_tune, saved_vars, mod_type, status, handle_vars,
      threads, plotdata, user_ops, refused>>

\* _set_ctle_peak_mag_tune(val): "raise RunTimeException(...)" names a class
\* that the module neither defines nor imports, so the raise statement itself
\* fails with NameError; in the band the value is assigned.
set_ctle_peak_mag_tune ==
    /\ call.fn = "_set_ctle_peak_mag_tune" /\ ~call.done
    /\ \E rejected \in {call.arg.val > gMaxCTLEPeak \/ call.arg.val < 0} :
         /\ peak_mag_tune' = IF rejected THEN peak_mag_tune ELSE call.arg.val
         /\ call' = [call EXCEPT !.done = TRUE,
                       !.ret = [exc |-> IF rejected THEN "NameError" ELSE "none"]]
    /\ UNCHANGED everything_but_peak_mag_tune

\* "pybert.peak_mag_tune = val": the trait is a plain Float, which takes any
\* float.  The intercept above is named for a trait ctle_peak_mag_tune, which
\* the class does not have, so no assignment goes through it.
assign_peak_mag_tune ==
    /\ call.fn = "peak_mag_tune" /\ ~call.done
    /\ peak_mag_tune' = call.arg.val
    /\ call' = [call EXCEPT !.done = TRUE, !.ret = [exc |-> "none"]]
    /\ UNCHANGED everything_but_peak_mag_tune

Calls == TxCalls \cup CostCalls \cup PeakCalls \cup ChnlCalls
         \cup CtleCalls \cup DoOptTxCalls

PureInit == Constructed /\ call \in Calls
PureNext ==
    \/ apply_tx_h_tune
    \/ apply_cost
    \/ apply_cost_again
    \/ set_ctle_peak_mag_tune
    \/ assign_peak_mag_tune
    \/ apply_calc_chnl_h
    \/ apply_ctle_h_tune
    \/ do_opt_tx_test
    \/ do_opt_tx_assign
    \/ do_opt_tx_return
    \/ edit_during_do_opt_tx
PureSpec == PureInit /\ [][PureNext]_vars

\* ------------------------------------------------ the SaveEq and ResetEq buttons
\* The two buttons pressed, up to twice, on settings as user edits and earlier
\* saves can have left them: the two DFE flags and the two peak magnitudes
\* equal or not; Post-tap2 and Post-tap3 as the DFE change handlers set them,
\* the Pre-tap and Post-tap1 checked or not by the user, Post-tap1 with a
\* value or without.  call.start keeps the tuning settings as they were
\* before the first press.
EqTaps(dfe) ==
    {[DefaultTaps EXCEPT ![1].enabled = e1, ![2].enabled = e2, ![2].value = v,
                         ![3].enabled = ~dfe, ![4].enabled = ~dfe] :
        e1 \in BOOLEAN, e2 \in BOOLEAN, v \in {0} \cup UserTapVals}
EqInit ==
    /\ use_dfe_tune \in BOOLEAN /\ use_dfe \in BOOLEAN
    /\ tx_tap_tuners \in EqTaps(use_dfe_tune)
    /\ tx_taps \in EqTaps(use_dfe)
    /\ peak_freq_tune = 5 /\ peak_freq = 5
    /\ peak_mag_tune \in {gPeakMag, gMaxCTLEPeak} /\ peak_mag \in {gPeakMag, gMaxCTLEPeak}
    /\ rx_bw_tune = 12 /\ rx_bw = 12
    /\ ctle_offset_tune = 0 /\ ctle_offset = 0
    /\ ctle_mode_tune = "Off" /\ ctle_mode = "Off"
    /\ n_taps_tune = gNtaps /\ n_taps = gNtaps
    /\ mod_type = 0
    /\ status = "Ready."
    /\ tx_opt_thread = None /\ rx_opt_thread = None /\ coopt_thread = None
    /\ threads = <<>>
    /\ user_ops = 0
    /\ refused = <<>>
    /\ plotdata = NoPlotData
    /\ call = [fn |-> "eq", pressed |-> <<>>,
               start |-> [tuners |-> tx_tap_tuners, tune |-> tune_vars]]
press_save_eq ==
    /\ call.fn = "eq" /\ Len(call.pressed) < 2
    /\ save_eq
    /\ call' = [call EXCEPT !.pressed = Append(@, "save")]
    /\ UNCHANGED <<user_ops, refused, plotdata>>
press_rst_eq ==
    /\ call.fn = "eq" /\ Len(call.pressed) < 2
    /\ rst_eq
    /\ call' = [call EXCEPT !.pressed = Append(@, "rst")]
    /\ UNCHANGED <<user_ops, refused, plotdata>>
EqNext == press_save_eq \/ press_rst_eq
EqSpec == EqInit /\ [][EqNext]_vars

\* C15: evaluating the cost is pure.  The step in which a worker's objective
\* function reads pybert.cost leaves every tunable setting, every committed
\* setting and the modulation type (the impulse responses are functions of
\* these and of the constant chnl_h), the status, the thread handles, every
\* other thread and the worker's own result as they were; if it writes at all, it writes the two entries
\* 'ctle_out_h_tune' and 'clocks_tune' of the plot sink.
CostEvaluationIsPure ==
    [][\A t \in 1..Len(threads) :
         (threads[t].pc = "cost" /\ threads'[t].pc # "cost") =>
            /\ UNCHANGED <<tx_tap_tuners, tune_vars, saved_vars, mod_type,
                           status, handle_vars>>
            /\ Len(threads') = Len(threads)
            /\ \A u \in 1..Len(threads) : u # t => threads'[u] = threads[u]
            /\ threads'[t].kind = threads[t].kind
            /\ threads'[t].res = threads[t].res
            /\ DOMAIN plotdata' = {"ctle_out_h_tune", "clocks_tune"}
    ]_vars
\* a first evaluation has returned to the minimizer and has written the sink
CostEvaluatedOnce ==
    /\ plotdata # NoPlotData
    /\ \E t \in 1..Len(threads) : threads[t].pc = "minimize" /\ threads[t].nfev = 1

\* C11: the coefficient list of a tuner list is its values in order, 0 for a
\* disabled tuner, with the main tap 1 - sum(|others|) inserted at index 1
\* (the main tap is 1 when every tuner is disabled); tx_h_tune has
\* (tuners + 1) * nspui samples, coefficient k at index k * nspui, 0 elsewhere.
FfeCoefficients ==
    Applied("tx_h_tune") =>
        LET ts    == call.arg.tuners
            nspui == call.arg.nspui
            ffe   == call.ret.ffe
            h     == call.ret.h
            n     == Len(ts)
            \* 0-based position of tuner i (1-based) in the coefficient list
            pos(i) == IF i = 1 THEN 0 ELSE i
        IN  /\ Len(ffe) = n + 1
            /\ \A i \in 1..n :
                  ffe[pos(i) + 1] = IF ts[i].enabled THEN ts[i].value ELSE 0
            /\ ffe[2] = One - SumSeq([i \in 1..n |-> Abs(ffe[pos(i) + 1])])
            /\ (\A i \in 1..n : ~ts[i].enabled) => ffe[2] = One
            /\ Len(h) = (n + 1) * nspui
            /\ \A j \in 0..(Len(h) - 1) :
                  h[j + 1] = IF j % nspui = 0 THEN ffe[(j \div nspui) + 1] ELSE 0

\* The program's four tuners, two of them enabled with non-zero weights, at
\* four samples per unit interval.
FfeOfFourTuners ==
    /\ Applied("tx_h_tune")
    /\ Len(call.arg.tuners) = 4
    /\ call.arg.nspui = 4
    /\ call.arg.tuners[1].enabled /\ call.arg.tuners[1].value = -1
    /\ call.arg.tuners[2].enabled /\ call.arg.tuners[2].value = 1
    /\ ~call.arg.tuners[3].enabled /\ call.arg.tuners[3].value = 1
    /\ ~call.arg.tuners[4].enabled
    /\ call.ret.ffe = <<-1, 8, 1, 0, 0>>

\* what a cost call was applied to, and whether it returned a cost that the
\* clock placement produced
arg_nspui == get_nspui(call.arg.mod_type)
arg_p     == pulse(call.arg.h0, arg_nspui)
Returned  == Applied("cost") /\ call.ret.exc = "none"
Placed    == Returned /\ ~call.ret.degenerate

\* C12: when no sample of the pulse response p exceeds max(p) / 2 (an
\* all-zero response, any response with max(p) <= 0), the cost evaluation
\* returns the sentinel 1.0 and raises nothing.
SentinelOnDegenerate ==
    (/\ Applied("cost")
     /\ \A i \in 1..Len(arg_p) : ~(2 * arg_p[i] > MaxSeq(arg_p)))
        => (call.ret.exc = "none" /\ call.ret.cost = CostOne)

\* The cost of the all-zero response, DFE on, was evaluated on the build that
\* rejects a float slice index.
SentinelOfZeroResponse ==
    /\ Applied("cost")
    /\ \A i \in 1..Len(call.arg.h0) : call.arg.h0[i] = 0
    /\ call.arg.use_dfe /\ call.arg.n_taps = gNtaps
    /\ call.arg.float_index = "TypeError"
    /\ call.ret.exc = "none" /\ call.ret.cost = CostOne

MainLobeSpansNspui ==
    Placed =>
        LET lobe == {i \in 0..(Len(arg_p) - 1) :
                        arg_p[i + 1] * call.ret.div > call.ret.tn}
        IN  \A a, b \in lobe :
               ((\A i \in lobe : a <= i /\ i <= b) => b - a = arg_nspui)

\* |p[ix]| summed over the 0-based indices ix of p that satisfy Keep
SumAbsAt(pp, Keep(_)) ==
    SumSeq([i \in 1..Len(pp) |-> IF Keep(i - 1) THEN Abs(pp[i]) ELSE 0])

\* C19: in NRZ the cost is the sum of |p[clock_pos - k * nspui]| (k >= 1,
\* index >= 0), plus, with the DFE off only, the sum of
\* |p[clock_pos + k * nspui]| (k >= 1, index < len(p)), minus p[clock_pos];
\* with the DFE on no sample after clock_pos enters it.
NrzCost ==
    (Placed /\ call.arg.mod_type = 0) =>
        LET cp  == call.ret.clock_pos
            pre(ix)  == ix < cp /\ (cp - ix) % arg_nspui = 0
            post(ix) == ix > cp /\ (ix - cp) % arg_nspui = 0
        IN  call.ret.cost = SumAbsAt(arg_p, pre)
                            + (IF call.arg.use_dfe THEN 0 ELSE SumAbsAt(arg_p, post))
                            - At(arg_p, cp)

\* An NRZ cost with the DFE off, a pre-cursor and a post-cursor sample in it.
NrzCostWithBothCursors ==
    /\ Placed /\ call.arg.mod_type = 0 /\ ~call.arg.use_dfe
    /\ call.ret.clock_pos = 2
    /\ arg_p[1] # 0 /\ arg_p[5] # 0
    /\ call.ret.cost = Abs(arg_p[1]) + Abs(arg_p[5]) - arg_p[3]

\* C20: in duo-binary clock_pos is the main-lobe midpoint less nspui // 2 and
\* the cost is ISI - p[clock_pos] - p[clock_pos + nspui]
\* + 2 * |p[clock_pos + nspui] - p[clock_pos]| on the pulse response p of
\* step 1, with the DFE off and with it on for any tap count.
DuoBinaryCost ==
    (Placed /\ call.arg.mod_type = 1) =>
        LET cp  == call.ret.clock_pos
            c2  == cp + arg_nspui
            pre(ix)  == ix < cp /\ (cp - ix) % arg_nspui = 0
            post(ix) == ix > c2 /\ (ix - c2) % arg_nspui = 0
            isi == SumAbsAt(arg_p, pre)
                   + (IF call.arg.use_dfe THEN 0 ELSE SumAbsAt(arg_p, post))
        IN  /\ cp = ((call.ret.first + call.ret.last) \div 2) - (arg_nspui \div 2)
            /\ call.ret.cost = isi - At(arg_p, cp) - At(arg_p, c2)
                               + 2 * Abs(At(arg_p, c2) - At(arg_p, cp))

\* C14: the CTLE peak magnitude stays in the band: after any set attempt
\* peak_mag_tune is within [0, gMaxCTLEPeak], an attempt with a value outside
\* the band having left it as it was.
PeakMagTuneInBand ==
    /\ peak_mag_tune \in 0..gMaxCTLEPeak
    /\ (call.fn \in {"_set_ctle_peak_mag_tune", "peak_mag_tune"} /\ call.done
        /\ call.arg.val \notin 0..gMaxCTLEPeak) => peak_mag_tune = gPeakMag

\* C16: the samples calc_chnl_h stores sum to 1 and len_h is their number,
\* from a file and from the physical parameters, with impulse_length set and
\* unset, whenever the trimmed response has a sum to normalize by.
StoredChannelSumsToOne ==
    (Applied("calc_chnl_h") /\ call.ret.finite) =>
        /\ SumSeq(call.ret.chnl_h.samples) = call.ret.chnl_h.over
        /\ call.ret.len_h = Len(call.ret.chnl_h.samples)
\* a step response from a file, trimmed to impulse_length = 2 samples, of
\* which the trimming drops a non-zero sample
TrimmedStepResponseStored ==
    /\ Applied("calc_chnl_h") /\ call.ret.finite
    /\ call.arg.use_ch_file /\ call.arg.impulse_length = 2
    /\ call.arg.w = <<-1, 0, 2, 2>>
    /\ call.g = <<1, 2, 0, 0>>
    /\ call.ret.chnl_h.samples = <<2, 0>> /\ call.ret.start_ix = 1
    /\ call.ret.len_h = 2

\* C17: in every CTLE mode the CTLE impulse response has len_h samples and
\* their sum is |H(0)| of the synthesized frequency response.
CtleSumIsDcGain ==
    Applied("ctle_h_tune") =>
        /\ Len(call.ret.h) = len_h
        /\ SumSeq(call.ret.h) = call.ret.H0
\* a peaking mode at 10 dB: the truncation cuts a non-zero sample off, and the
\* rescaling brings the sum of the rest from CtleOne to |H(0)| = 2 * CtleOne
PeakingCtleRescaled ==
    /\ Applied("ctle_h_tune")
    /\ call.arg.mode = "Passive" /\ call.arg.peak_mag = gPeakMag
    /\ make_ctle(gPeakMag, "Passive").h = <<10, -4, -2, 4>>
    /\ call.ret.H0 = 2 * CtleOne
    /\ call.ret.h = <<20, -8, -4>>

\* C21: the threshold search ends after at most 12 refinements.  It starts
\* at p_max / 2 with div = 2; a refinement is made only while the span error
\* is not 0 and div < 5000, doubles div, and moves the threshold by
\* p_max / div (the new div), up when the span is too wide and down when it
\* is too narrow; after the last one the error is 0 or div >= 5000.
Searched == Applied("cost") /\ ~call.ret.degenerate
SpanErr(e) == e.last - e.first - arg_nspui
SearchEndsWithin12Steps ==
    Searched =>
        LET tr == call.ret.trace
            n  == Len(tr)
        IN  /\ n >= 1 /\ n - 1 <= 12
            /\ tr[1].div = 2 /\ tr[1].tn = MaxSeq(arg_p)
            /\ \A k \in 1..(n - 1) :
                  /\ tr[k].first >= 0
                  /\ SpanErr(tr[k]) # 0 /\ tr[k].div < 5000
                  /\ tr[k + 1].div = 2 * tr[k].div
                  /\ SpanErr(tr[k]) > 0 => tr[k + 1].tn = 2 * tr[k].tn + MaxSeq(arg_p)
                  /\ SpanErr(tr[k]) < 0 => tr[k + 1].tn = 2 * tr[k].tn - MaxSeq(arg_p)
            /\ tr[n].first < 0 \/ SpanErr(tr[n]) = 0 \/ tr[n].div >= 5000
\* a search that raised the threshold, then lowered it, and used all 12
\* refinements
SearchedBothWays ==
    /\ Searched
    /\ Len(call.ret.trace) = 13
    /\ call.ret.trace[13].div = 8192
    /\ \E j, k \in 1..12 : /\ j < k
                           /\ SpanErr(call.ret.trace[j]) > 0
                           /\ SpanErr(call.ret.trace[k]) < 0

\* C22: the main lobe is a contiguous run: when the cost evaluator has placed
\* the clock, every index from the first to the last index with p > thresh
\* has p > thresh, and in NRZ so has clock_pos.
AboveThresh(i) == arg_p[i + 1] * call.ret.div > call.ret.tn
MainLobeContiguous ==
    Placed =>
        /\ \A i \in call.ret.first..call.ret.last : AboveThresh(i)
        /\ call.arg.mod_type = 0 => AboveThresh(call.ret.clock_pos)

\* C23: once the first main lobe is not empty, the threshold stays strictly
\* below max(p) and the set of indices with p > thresh is not empty, at the
\* first test and after every refinement of the search.
MainLobeNeverEmpty ==
    Searched =>
        \A k \in 1..Len(call.ret.trace) :
            LET e == call.ret.trace[k]
            IN  /\ e.tn < e.div * MaxSeq(arg_p)
                /\ e.first >= 0 /\ e.last >= e.first
                /\ arg_p[e.first + 1] * e.div > e.tn
                /\ arg_p[e.last + 1] * e.div > e.tn
\* the threshold was raised 12 times, to p_max * 8191 / 8192, and the main
\* lobe is still there
ThresholdRaisedToTheEnd ==
    /\ Searched
    /\ Len(call.ret.trace) = 13
    /\ call.ret.trace[13].div = 8192
    /\ call.ret.trace[13].tn = 8191 * MaxSeq(arg_p)
    /\ call.ret.trace[13].first >= 0

\* C24: every index the cost evaluator uses lies in [0, len(p)): in
\* duo-binary mode clock_pos >= 0 and clock_pos + nspui < len(p) for every
\* non-degenerate pulse response, and no access raises IndexError.
ClockIndicesInRange ==
    Searched =>
        /\ call.ret.clock_pos >= 0
        /\ call.ret.clock_pos < Len(arg_p)
        /\ call.arg.mod_type = 1 => call.ret.clock_pos + arg_nspui < Len(arg_p)
        /\ call.ret.exc # "IndexError"

\* C25: when an objective callback reads the cost, the settings hold the
\* argument x it was called with: the values of the enabled tuners are the
\* tap part of x (Tx search, co-optimization) and peak_mag_tune is its last
\* element (Rx search, co-optimization).
EnabledValues ==
    LET ixs == enabled_ixs(tx_tap_tuners, 1)
    IN  [k \in 1..Len(ixs) |-> tx_tap_tuners[ixs[k]].value]
CostReadIsOfOwnArgument ==
    \A t \in ThreadIds :
        threads[t].pc = "cost" =>
            LET th == threads[t]
            IN  /\ th.kind = "tx" => EnabledValues = th.x
                /\ th.kind = "rx" => peak_mag_tune = th.x[1]
                /\ th.kind = "co" => /\ Len(th.x) >= 1
                                     /\ EnabledValues = SubSeq(th.x, 1, Len(th.x) - 1)
                                     /\ peak_mag_tune = th.x[Len(th.x)]

\* C26: a worker writes only its search variables.  Every step of the Tx
\* search's callback that changes tx_tap_tuners changes only the value of
\* tuners that are enabled: no enabled, min_val or max_val, not the value of
\* a disabled tuner, and no other tuning or committed setting.
WorkerWritesOnlyEnabledValues ==
    [][(call.fn = "do_opt_tx" /\ user_ops' = user_ops
        /\ tx_tap_tuners' # tx_tap_tuners) =>
          /\ \A i \in 1..Len(tx_tap_tuners) :
                /\ tx_tap_tuners'[i].enabled = tx_tap_tuners[i].enabled
                /\ tx_tap_tuners'[i].min_val = tx_tap_tuners[i].min_val
                /\ tx_tap_tuners'[i].max_val = tx_tap_tuners[i].max_val
                /\ ~tx_tap_tuners[i].enabled =>
                      tx_tap_tuners'[i].value = tx_tap_tuners[i].value
          /\ UNCHANGED <<tune_vars, saved_vars>>
    ]_vars

\* C27: after SaveEq, and after ResetEq, the committed settings equal the
\* tuning settings field by field (value and enabled of each of the four
\* taps, and the seven scalar settings); SaveEq followed by ResetEq leaves
\* the tuning settings as they were.
CommittedEqualsTuning ==
    /\ \A i \in 1..Len(tx_taps) :
          /\ tx_taps[i].value = tx_tap_tuners[i].value
          /\ tx_taps[i].enabled = tx_tap_tuners[i].enabled
    /\ peak_freq = peak_freq_tune /\ peak_mag = peak_mag_tune
    /\ rx_bw = rx_bw_tune /\ ctle_mode = ctle_mode_tune
    /\ ctle_offset = ctle_offset_tune
    /\ use_dfe = use_dfe_tune /\ n_taps = n_taps_tune
SaveAndResetAgree ==
    (call.fn = "eq" /\ call.pressed # <<>>) =>
        /\ CommittedEqualsTuning
        /\ call.pressed = <<"save", "rst">> =>
              /\ tx_tap_tuners = call.start.tuners
              /\ tune_vars = call.start.tune

====
